---- MODULE Spec2Model ----
(***************************************************************************)
(* Conversation session and export transform of the Legal RAG chatbot page *)
(* (src/pages/Chatbot.py).                                                 *)
(*                                                                         *)
(* State: the Streamlit session state (which keys exist, the displayed     *)
(* message list, the conversation log), the data root name read from the   *)
(* configuration, and a record of what the last script run did.            *)
(* One action per script run: every run executes main(), that is           *)
(* init_session_state() followed by the handler of the widget that         *)
(* triggered the run.                                                      *)
(*                                                                         *)
(* Python strings are sequences of one-character strings.  Python values   *)
(* of several possible types (None, a missing key, str, a pathlib.Path)    *)
(* are records tagged by "kind".  Wall-clock values (the Turn timestamp,   *)
(* the export id and file name) and the display-only summary names that    *)
(* pathlib derives (db_name, file name) are left out: no property below    *)
(* reads them.                                                             *)
(***************************************************************************)
EXTENDS Integers, Sequences, FiniteSets, TLC

VARIABLES keys, messages, conversation_log, root, last

vars == <<keys, messages, conversation_log, root, last>>

(***************************************************************************)
(* Bounds of the exploration.                                              *)
(***************************************************************************)
MaxTurns == 2
MaxMessages == 4
MaxDocTurns == 1
MaxDocs == 2
MaxLen == 4

(***************************************************************************)
(* Strings.                                                                *)
(***************************************************************************)
Slash == "/"
Backslash == "\\"
Space == " "

\* All sequences (strings, document lists) over S of length at most n.
SeqsUpTo(S, n) == UNION {[1..k -> S] : k \in 0..n}

\* s[i..j] with Python slicing semantics on 1-based TLA+ positions.
Slice(s, i, j) == IF i > j THEN <<>> ELSE SubSeq(s, i, j)

\* str.replace('\\', '/'), line 358.
ReplaceBackslash(s) == [i \in 1..Len(s) |-> IF s[i] = Backslash THEN Slash ELSE s[i]]

\* True when needle occurs in s at 0-based offset k.
OccursAt(s, needle, k) ==
  /\ k + Len(needle) <= Len(s)
  /\ \A j \in 1..Len(needle) : s[k + j] = needle[j]

\* str.find: the lowest 0-based offset of needle in s, or -1.
Find(s, needle) ==
  LET hits == {k \in 0..Len(s) : OccursAt(s, needle, k)}
  IN IF hits = {} THEN -1 ELSE CHOOSE k \in hits : \A h \in hits : k <= h

RECURSIVE LStrip(_)
LStrip(s) == IF s # <<>> /\ Head(s) = Space THEN LStrip(Tail(s)) ELSE s

RECURSIVE RStrip(_)
RStrip(s) ==
  IF s # <<>> /\ s[Len(s)] = Space THEN RStrip(Slice(s, 1, Len(s) - 1)) ELSE s

\* str.strip(), line 349.
Strip(s) == RStrip(LStrip(s))

UnknownSource == <<"u","n","k","n","o","w","n","_","s","o","u","r","c","e">>
Ellipsis == <<".", ".", ".">>
TitleLen == 60

(***************************************************************************)
(* Python values.                                                          *)
(***************************************************************************)
\* A value of metadata["source"]: the key is missing, the value is None (or
\* another object pathlib rejects), a str, or a pathlib.Path.
SrcAbsent == [kind |-> "absent"]
SrcNone == [kind |-> "none"]
SrcStr(s) == [kind |-> "str", s |-> s]
SrcPath(s) == [kind |-> "path", s |-> s]

\* Document.metadata: the attribute is missing, it is None, or it is a mapping.
MetaNoAttr == [kind |-> "noattr"]
MetaNone == [kind |-> "none"]
MetaMap(src, country) == [kind |-> "map", source |-> src, country |-> country]

Doc(text, meta) == [page_content |-> text, metadata |-> meta]

\* Optional values returned by the pipeline: reasoning (str or None) and the
\* extracted metadata (a mapping, given by its set of keys, or None).
NoneVal == [kind |-> "none"]
StrVal(s) == [kind |-> "str", s |-> s]
MapVal(ks) == [kind |-> "map", keys |-> ks]

\* Python truthiness of an optional str or mapping.
Truthy(v) ==
  CASE v.kind = "none" -> FALSE
    [] v.kind = "str" -> v.s # <<>>
    [] v.kind = "map" -> v.keys # {}

\* answer_question either raises or returns (answer, docs, reasoning, metadata).
Raise == [kind |-> "raise"]
Answered(a, ds, r, md) ==
  [kind |-> "ok", answer |-> a, docs |-> ds, reasoning |-> r, metadata |-> md]

(***************************************************************************)
(* Session state initialisation, lines 48-60.                              *)
(***************************************************************************)
AllKeys == {"config", "messages", "conversation_log"}

\* if "messages" not in st.session_state: st.session_state.messages = []
init_messages(ks, msgs) == IF "messages" \in ks THEN msgs ELSE <<>>

\* Mutant: the log is reset on every script run, like the config at line 54.
init_conversation_log_always(ks, log) == <<>>

\* if "conversation_log" not in st.session_state: ...conversation_log = []
init_conversation_log(ks, log) == IF "conversation_log" \in ks THEN log ELSE <<>>

(***************************************************************************)
(* Turn logging, lines 288-314.                                            *)
(***************************************************************************)
\* A document the code can read: doc.metadata is a mapping whose "source",
\* when present, is something pathlib.Path accepts (a str or a Path).
DocUsable(d) ==
  /\ d.metadata.kind = "map"
  /\ d.metadata.source.kind \in {"absent", "str", "path"}

\* {"page_content": d.page_content, "metadata": d.metadata}
RawSource(d) == [page_content |-> d.page_content, metadata |-> d.metadata]

\* The summary entry; doc.metadata.get("country") is None for a missing key.
SummarySource(d) == [country |-> d.metadata.country]

\* "extracted_metadata" is set only under `if metadata:`.
Unset == [present |-> FALSE]
SetTo(v) == [present |-> TRUE, value |-> v]

\* The turn dictionary built at lines 290-312.
MakeTurn(question, answer, docs, metadata) ==
  [question |-> question,
   answer |-> answer,
   num_sources |-> Len(docs),
   raw_sources |-> [i \in 1..Len(docs) |-> RawSource(docs[i])],
   sources |-> [i \in 1..Len(docs) |-> SummarySource(docs[i])],
   extracted_metadata |-> IF Truthy(metadata) THEN SetTo(metadata) ELSE Unset]

\* d.metadata raises AttributeError when the attribute is missing,
\* doc.metadata.get raises it when metadata is None, Path(None) raises TypeError.
LogRaises(docs) == \E i \in 1..Len(docs) : ~DocUsable(docs[i])

\* log_conversation_turn: raises, or appends the turn to the log.
log_conversation_turn(log, question, answer, docs, metadata) ==
  IF LogRaises(docs)
  THEN [raised |-> TRUE, log |-> log]
  ELSE [raised |-> FALSE, log |-> Append(log, MakeTurn(question, answer, docs, metadata))]

(***************************************************************************)
(* handle_user_input, lines 210-282.                                       *)
(***************************************************************************)
UserMessage(prompt) == [role |-> "user", content |-> prompt]

\* Lines 261-271: "reasoning" and "metadata" are set only when truthy.
AssistantMessage(res) ==
  [role |-> "assistant",
   content |-> res.answer,
   sources |-> res.docs,
   reasoning |-> IF Truthy(res.reasoning) THEN SetTo(res.reasoning) ELSE Unset,
   metadata |-> IF Truthy(res.metadata) THEN SetTo(res.metadata) ELSE Unset]

\* Lines 235-248: the sources expander reads meta.get(...) and Path(source) of
\* every document, inside the try.
DisplayRaises(docs) == \E i \in 1..Len(docs) : ~DocUsable(docs[i])

\* Mutant: the except branch records the failed exchange as a Turn with an
\* empty answer.
handle_user_input_logging_failures(msgs, log, prompt, res) ==
  LET m1 == Append(msgs, UserMessage(prompt))
  IN IF res.kind = "raise"
     THEN [messages |-> m1,
           log |-> Append(log, MakeTurn(prompt, <<>>, <<>>, NoneVal)),
           outcome |-> "pipeline_error"]
     ELSE IF DisplayRaises(res.docs)
     THEN [messages |-> m1, log |-> log, outcome |-> "display_error"]
     ELSE LET m2 == Append(m1, AssistantMessage(res))
              logged == log_conversation_turn(log, prompt, res.answer, res.docs, res.metadata)
          IN IF logged.raised
             THEN [messages |-> m2, log |-> log, outcome |-> "log_error"]
             ELSE [messages |-> m2, log |-> logged.log, outcome |-> "logged"]

\* Mutant: the assistant message is saved before the sources are rendered.
handle_user_input_saving_first(msgs, log, prompt, res) ==
  LET m1 == Append(msgs, UserMessage(prompt))
  IN IF res.kind = "raise"
     THEN [messages |-> m1, log |-> log, outcome |-> "pipeline_error"]
     ELSE LET m2 == Append(m1, AssistantMessage(res))
              logged == log_conversation_turn(log, prompt, res.answer, res.docs, res.metadata)
          IN IF DisplayRaises(res.docs)
             THEN [messages |-> m2, log |-> log, outcome |-> "display_error"]
             ELSE IF logged.raised
             THEN [messages |-> m2, log |-> log, outcome |-> "log_error"]
             ELSE [messages |-> m2, log |-> logged.log, outcome |-> "logged"]

\* The session state after handle_user_input and how far it got.  The user
\* message is appended before the try; every exception is caught at line 281.
handle_user_input(msgs, log, prompt, res) ==
  LET m1 == Append(msgs, UserMessage(prompt))
  IN IF res.kind = "raise"
     THEN [messages |-> m1, log |-> log, outcome |-> "pipeline_error"]
     ELSE IF DisplayRaises(res.docs)
     THEN [messages |-> m1, log |-> log, outcome |-> "display_error"]
     ELSE LET m2 == Append(m1, AssistantMessage(res))
              logged == log_conversation_turn(log, prompt, res.answer, res.docs, res.metadata)
          IN IF logged.raised
             THEN [messages |-> m2, log |-> log, outcome |-> "log_error"]
             ELSE [messages |-> m2, log |-> logged.log, outcome |-> "logged"]

(***************************************************************************)
(* export_conversation, lines 317-404.                                     *)
(***************************************************************************)
\* title = first_question[:60] + "..." if len(first_question) > 60 else ...
Title(first_question) ==
  IF Len(first_question) > TitleLen
  THEN Slice(first_question, 1, TitleLen) \o Ellipsis
  ELSE first_question

\* src_path_abs = meta.get("source", "unknown_source"), line 352.
SourcePathAbs(meta) ==
  IF meta.source.kind = "absent" THEN SrcStr(UnknownSource) ELSE meta.source

\* Mutant: the fallback appends the separator-normalised path.
CanonicalId_normalized_fallback(src_path_abs, base) ==
  IF src_path_abs.kind = "str"
  THEN LET normalized_path == ReplaceBackslash(src_path_abs.s)
           start_index == Find(normalized_path, base \o <<Slash>>)
       IN IF start_index # -1
          THEN SrcStr(Slice(normalized_path, start_index + 1, Len(normalized_path)))
          ELSE SrcStr(normalized_path)
  ELSE src_path_abs

\* Lines 356-372.  On a str: normalise the separators, look for the first
\* BASE_FOLDER_NAME + '/', cut there or fall back to the original value.  On
\* any other object .replace('\\', '/') raises (a Path takes one argument,
\* None has no such method) and the except appends the original value.
CanonicalId(src_path_abs, base) ==
  IF src_path_abs.kind = "str"
  THEN LET normalized_path == ReplaceBackslash(src_path_abs.s)
           start_index == Find(normalized_path, base \o <<Slash>>)
       IN IF start_index # -1
          THEN SrcStr(Slice(normalized_path, start_index + 1, Len(normalized_path)))
          ELSE src_path_abs
  ELSE src_path_abs

\* contexts: source.get("page_content", "").strip() of every raw source.
RECURSIVE Contexts(_)
Contexts(raw) ==
  IF raw = <<>> THEN <<>>
  ELSE <<Strip(Head(raw).page_content)>> \o Contexts(Tail(raw))

\* Mutant: a raw source without a "source" key gets no id.
RECURSIVE SourceIds_skipping_unknown(_, _)
SourceIds_skipping_unknown(raw, base) ==
  IF raw = <<>> THEN <<>>
  ELSE IF Head(raw).metadata.source.kind = "absent"
  THEN SourceIds_skipping_unknown(Tail(raw), base)
  ELSE <<CanonicalId(SourcePathAbs(Head(raw).metadata), base)>>
         \o SourceIds_skipping_unknown(Tail(raw), base)

\* source_ids: one id per raw source, appended in the same loop iteration.
RECURSIVE SourceIds(_, _)
SourceIds(raw, base) ==
  IF raw = <<>> THEN <<>>
  ELSE <<CanonicalId(SourcePathAbs(Head(raw).metadata), base)>>
         \o SourceIds(Tail(raw), base)

UserEntry(turn) == [role |-> "user", content |-> turn.question]

AssistantEntry(turn, base) ==
  [role |-> "assistant",
   content |-> turn.answer,
   contexts |-> Contexts(turn.raw_sources),
   source_ids |-> SourceIds(turn.raw_sources, base),
   ground_truth |-> <<>>]

\* Mutant: a turn repeating the question of the next one is merged away.
RECURSIVE History_merging_repeats(_, _)
History_merging_repeats(log, base) ==
  IF log = <<>> THEN <<>>
  ELSE IF Len(log) >= 2 /\ log[1].question = log[2].question
  THEN History_merging_repeats(Tail(log), base)
  ELSE <<UserEntry(Head(log)), AssistantEntry(Head(log), base)>>
         \o History_merging_repeats(Tail(log), base)

\* The loop of lines 336-382: two entries per turn, in log order.
RECURSIVE History(_, _)
History(log, base) ==
  IF log = <<>> THEN <<>>
  ELSE <<UserEntry(Head(log)), AssistantEntry(Head(log), base)>>
         \o History(Tail(log), base)

\* meta.get at line 352 is outside the try: it raises when a stored metadata
\* is not a mapping.
CanonicalizeRaises(log) ==
  \E k \in 1..Len(log) : \E i \in 1..Len(log[k].raw_sources) :
    log[k].raw_sources[i].metadata.kind # "map"

\* json.dumps (line 396) raises TypeError on a value that is neither str, number,
\* list, dict, bool nor None: here a Path left in source_ids by the fallback.
JsonRaises(history) ==
  \E i \in 1..Len(history) :
    /\ history[i].role = "assistant"
    /\ \E j \in 1..Len(history[i].source_ids) : history[i].source_ids[j].kind = "path"

NoDownload == [kind |-> "none"]
Download(title, history) == [kind |-> "json", title |-> title, history |-> history]

\* Mutant: no check for an empty log; an empty session is offered.
export_conversation_unguarded(log, base) ==
  IF CanonicalizeRaises(log)
  THEN [outcome |-> "export_error", download |-> NoDownload]
  ELSE LET history == History(log, base)
       IN IF JsonRaises(history)
          THEN [outcome |-> "export_error", download |-> NoDownload]
          ELSE [outcome |-> "download",
                download |-> Download(IF log = <<>> THEN <<>> ELSE Title(log[1].question),
                                      history)]

\* What one call of export_conversation shows: the warning, an uncaught
\* exception, or the download button carrying the serialised session.
export_conversation(log, base) ==
  IF log = <<>>
  THEN [outcome |-> "refused", download |-> NoDownload]
  ELSE IF CanonicalizeRaises(log)
  THEN [outcome |-> "export_error", download |-> NoDownload]
  ELSE LET history == History(log, base)
       IN IF JsonRaises(history)
          THEN [outcome |-> "export_error", download |-> NoDownload]
          ELSE [outcome |-> "download",
                download |-> Download(Title(log[1].question), history)]

\* Mutant: Clear resets the log and leaves the displayed messages.
clear_messages_kept(msgs) == msgs

\* The Clear Conversation button, lines 160-163.
clear_messages(msgs) == <<>>
clear_conversation_log(log) == <<>>

(***************************************************************************)
(* Inputs.                                                                 *)
(***************************************************************************)
\* config.data_base_dir ends in the data root; Path(...).name is that name.
BaseFolderName == <<"D">>

ShortQuestion == <<"q">>
LongQuestion == [i \in 1..(TitleLen + 1) |-> "q"]
Questions == {ShortQuestion, LongQuestion}
Answers == {<<"a">>, <<"b">>}
Reasonings == {NoneVal, StrVal(<<"r">>)}
Metadatas == {NoneVal, MapVal({}), MapVal({"k"})}

UnixPath == <<"/", "x", "/", "D", "/", "a">>
WindowsPath == <<"c", "\\", "D", "\\", "b">>
ForeignPath == <<"c", "\\", "b">>

GoodDoc == Doc(<<" ", "t", " ">>, MetaMap(SrcStr(UnixPath), StrVal(<<"I", "T">>)))
WindowsDoc == Doc(<<"u">>, MetaMap(SrcStr(WindowsPath), NoneVal))
ForeignDoc == Doc(<<"f", " ">>, MetaMap(SrcStr(ForeignPath), NoneVal))
NoSourceDoc == Doc(<<" ", "v">>, MetaMap(SrcAbsent, NoneVal))
PathDoc == Doc(<<"p">>, MetaMap(SrcPath(UnixPath), NoneVal))
NoneSourceDoc == Doc(<<"n">>, MetaMap(SrcNone, NoneVal))
NoneMetaDoc == Doc(<<"m">>, MetaNone)
NoAttrDoc == Doc(<<"m">>, MetaNoAttr)

\* The session flow: every outcome of the pipeline call, few documents.
FlowDocLists ==
  {<<>>, <<GoodDoc>>, <<NoneMetaDoc>>, <<GoodDoc, NoAttrDoc>>, <<NoneSourceDoc>>}
FlowResults ==
  {Raise} \cup {Answered(a, ds, r, md) :
                  a \in Answers, ds \in FlowDocLists, r \in Reasonings, md \in Metadatas}

\* Logging and export of documents: every list of up to MaxDocs documents
\* that lines 235-248 can render.
DocSet == {GoodDoc, WindowsDoc, ForeignDoc, NoSourceDoc, PathDoc}
DocResults == {Answered(<<"a">>, ds, NoneVal, NoneVal) : ds \in SeqsUpTo(DocSet, MaxDocs)}

\* Canonicalisation: every source string of up to MaxLen characters.
PathAlphabet == {Slash, Backslash, "D", "a"}
CanonRoots == {<<"D">>, <<"D", "a">>, <<>>}
CanonResults ==
  {Answered(<<"a">>, <<Doc(<<"t">>, MetaMap(SrcStr(s), NoneVal))>>, NoneVal, NoneVal) :
     s \in SeqsUpTo(PathAlphabet, MaxLen)}

(***************************************************************************)
(* The script runs.                                                        *)
(***************************************************************************)
NoQuestion == <<>>
NoResult == [kind |-> "none"]

\* What the run that just ended did, and the session state it started from.
Ran(op, outcome, question, res, download) ==
  [op |-> op, outcome |-> outcome, question |-> question, result |-> res,
   download |-> download,
   prevKeys |-> keys, prevMessages |-> messages, prevLog |-> conversation_log]

InitWith(roots) ==
  /\ keys = {}
  /\ messages = <<>>
  /\ conversation_log = <<>>
  /\ root \in roots
  /\ last = [op |-> "start", outcome |-> "none", question |-> NoQuestion,
             result |-> NoResult, download |-> NoDownload,
             prevKeys |-> {}, prevMessages |-> <<>>, prevLog |-> <<>>]

\* main() with no widget event (or stopped at the vector store check, line 424):
\* only init_session_state runs.
Rerun ==
  /\ keys' = AllKeys
  /\ messages' = init_messages(keys, messages)
  /\ conversation_log' = init_conversation_log(keys, conversation_log)
  /\ last' = Ran("rerun", "rendered", NoQuestion, NoResult, NoDownload)
  /\ UNCHANGED root

\* main() with the chat input submitted: init_session_state, handle_user_input.
SubmitAction(prompt, res, cap) ==
  LET msgs0 == init_messages(keys, messages)
      log0 == init_conversation_log(keys, conversation_log)
      after == handle_user_input(msgs0, log0, prompt, res)
  IN /\ Len(log0) < cap
     /\ Len(msgs0) + 2 <= MaxMessages
     /\ keys' = AllKeys
     /\ messages' = after.messages
     /\ conversation_log' = after.log
     /\ last' = Ran("submit", after.outcome, prompt, res, NoDownload)
     /\ UNCHANGED root

\* main() with the Export button clicked: init_session_state, export_conversation.
Export ==
  LET msgs0 == init_messages(keys, messages)
      log0 == init_conversation_log(keys, conversation_log)
      shown == export_conversation(log0, root)
  IN /\ keys' = AllKeys
     /\ messages' = msgs0
     /\ conversation_log' = log0
     /\ last' = Ran("export", shown.outcome, NoQuestion, NoResult, shown.download)
     /\ UNCHANGED root

\* main() with the Clear button clicked: init_session_state, both lists reset.
Clear ==
  /\ keys' = AllKeys
  /\ messages' = clear_messages(init_messages(keys, messages))
  /\ conversation_log' = clear_conversation_log(init_conversation_log(keys, conversation_log))
  /\ last' = Ran("clear", "cleared", NoQuestion, NoResult, NoDownload)
  /\ UNCHANGED root

\* The session: every widget, every outcome of the pipeline call.
Init == InitWith({BaseFolderName})
Submit == \E q \in Questions, res \in FlowResults : SubmitAction(q, res, MaxTurns)
Next == Rerun \/ Submit \/ Export \/ Clear
Spec == Init /\ [][Next]_vars

\* Logging and exporting document lists: one question, then exports.
InitDocs == InitWith({BaseFolderName})
SubmitDocs == \E res \in DocResults : SubmitAction(ShortQuestion, res, MaxDocTurns)
NextDocs == Rerun \/ SubmitDocs \/ Export
SpecDocs == InitDocs /\ [][NextDocs]_vars

\* Canonicalising one source path: one single-document Turn, then exports.
InitCanon == InitWith(CanonRoots)
SubmitCanon == \E res \in CanonResults : SubmitAction(ShortQuestion, res, 1)
NextCanon == Rerun \/ SubmitCanon \/ Export
SpecCanon == InitCanon /\ [][NextCanon]_vars

(***************************************************************************)
(* Properties.                                                             *)
(***************************************************************************)
Submitted == last.op = "submit"
Exported == last.op = "export"
\* The session state the handler of the last run started from, that is after
\* init_session_state.
StartLog == init_conversation_log(last.prevKeys, last.prevLog)
StartMessages == init_messages(last.prevKeys, last.prevMessages)
LastTurn == conversation_log[Len(conversation_log)]
IsPrefix(s, t) == Len(s) <= Len(t) /\ s = Slice(t, 1, Len(s))

\* C1: a run of handle_user_input in which answer_question raises leaves
\* st.session_state.conversation_log equal to the log before the run.
C1_RaisingPipelineLogsNoTurn ==
  (Submitted /\ last.result.kind = "raise") => conversation_log = StartLog

C1_Witness ==
  /\ Submitted
  /\ last.result.kind = "raise"
  /\ last.outcome = "pipeline_error"
  /\ Len(StartLog) >= 1

\* C2 as stated: a run of the turn-creation flow either appends exactly one
\* well-formed Turn, or leaves conversation_log and messages as they were
\* before the run.
C2_AllOrNothing ==
  Submitted =>
    \/ /\ last.outcome = "logged"
       /\ conversation_log =
            Append(StartLog, MakeTurn(last.question, last.result.answer,
                                      last.result.docs, last.result.metadata))
    \/ /\ conversation_log = StartLog
       /\ messages = StartMessages

\* C2 amended: a run either appends exactly one well-formed Turn together with
\* the user and the assistant message, or it leaves conversation_log as it was
\* and adds the user message alone to messages.
C2_LogAllOrNothing ==
  Submitted =>
    \/ /\ last.outcome = "logged"
       /\ conversation_log =
            Append(StartLog, MakeTurn(last.question, last.result.answer,
                                      last.result.docs, last.result.metadata))
       /\ messages = StartMessages \o
            <<UserMessage(last.question), AssistantMessage(last.result)>>
    \/ /\ last.outcome # "logged"
       /\ conversation_log = StartLog
       /\ messages = Append(StartMessages, UserMessage(last.question))

C2_Witness ==
  /\ Submitted
  /\ last.outcome = "display_error"
  /\ Len(StartLog) >= 1
  /\ messages = Append(StartMessages, UserMessage(last.question))

\* The Turn the logger is asked to build holds the inputs verbatim.
EmptyMeta == MetaMap(SrcAbsent, NoneVal)
AllUsable(docs) == \A i \in 1..Len(docs) : DocUsable(docs[i])

\* C3 as stated: for a non-empty question and any pipeline result with readable
\* documents, the log grows by exactly one Turn, appended at the end, whose
\* question, answer, document texts and metadata equal the inputs in order and
\* whose extracted_metadata is the metadata passed in (absent when None).
C3_TurnEqualsInputs ==
  (Submitted /\ last.result.kind = "ok" /\ AllUsable(last.result.docs)) =>
    /\ Len(conversation_log) = Len(StartLog) + 1
    /\ IsPrefix(StartLog, conversation_log)
    /\ LastTurn.question = last.question
    /\ LastTurn.answer = last.result.answer
    /\ Len(LastTurn.raw_sources) = Len(last.result.docs)
    /\ \A i \in 1..Len(last.result.docs) :
         /\ LastTurn.raw_sources[i].page_content = last.result.docs[i].page_content
         /\ LastTurn.raw_sources[i].metadata = last.result.docs[i].metadata
    /\ LastTurn.extracted_metadata =
         IF last.result.metadata.kind = "none" THEN Unset ELSE SetTo(last.result.metadata)

\* C4 as stated: for every document list the pipeline returns, also one with a
\* document whose metadata is missing or None, log_conversation_turn does not
\* raise, exactly one Turn is appended, and that document is logged with an
\* empty mapping as its metadata.
C4_LoggingNeverRaises ==
  (Submitted /\ last.result.kind = "ok") =>
    LET res == last.result
        logged == log_conversation_turn(StartLog, last.question, res.answer,
                                        res.docs, res.metadata)
    IN /\ ~logged.raised
       /\ conversation_log = logged.log
       /\ Len(conversation_log) = Len(StartLog) + 1
       /\ \A i \in 1..Len(res.docs) :
            res.docs[i].metadata.kind \in {"noattr", "none"} =>
              LastTurn.raw_sources[i].metadata = EmptyMeta

\* A raw source the export cannot canonicalise as a path string.
Irregular(rs) ==
  \/ rs.metadata.kind # "map"
  \/ rs.metadata.source.kind \in {"absent", "none", "path"}

HasIrregular(log) ==
  \E k \in 1..Len(log) : \E i \in 1..Len(log[k].raw_sources) :
    Irregular(log[k].raw_sources[i])

\* The id the export is to give a raw source: the sentinel when there is no
\* source, the original value when it is not a string, the canonical id else.
ExpectedId(rs) ==
  IF rs.metadata.kind # "map" THEN SrcStr(UnknownSource)
  ELSE IF rs.metadata.source.kind = "absent" THEN SrcStr(UnknownSource)
  ELSE IF rs.metadata.source.kind # "str" THEN rs.metadata.source
  ELSE CanonicalId(rs.metadata.source, root)

\* C5 as stated: exporting a non-empty log that holds a raw source with an
\* absent, None or non-string source (or such metadata) completes with the full
\* document; that entry gets the fallback id and every other entry its
\* canonical id.
C5_ExportSurvivesIrregularSource ==
  (Exported /\ StartLog # <<>> /\ HasIrregular(StartLog)) =>
    /\ last.outcome = "download"
    /\ last.download.kind = "json"
    /\ Len(last.download.history) = 2 * Len(StartLog)
    /\ \A k \in 1..Len(StartLog) :
         LET raw == StartLog[k].raw_sources
             ids == last.download.history[2 * k].source_ids
         IN /\ Len(ids) = Len(raw)
            /\ \A i \in 1..Len(raw) : ids[i] = ExpectedId(raw[i])

\* c is s without its leading and trailing whitespace.
IsTrimOf(c, s) ==
  \E i \in 1..(Len(s) + 1), j \in 0..Len(s) :
    /\ c = Slice(s, i, j)
    /\ \A k \in 1..(i - 1) : s[k] = Space
    /\ \A k \in (j + 1)..Len(s) : s[k] = Space
    /\ c # <<>> => (c[1] # Space /\ c[Len(c)] # Space)

\* C6: in every exported document, contexts and source_ids of the assistant
\* entry of a Turn have the length of the Turn's raw documents, and position i
\* of each holds the trimmed text and the canonical id of the i-th raw document.
C6_ContextsAlignWithSourceIds ==
  (Exported /\ last.download.kind = "json") =>
    \A k \in 1..Len(conversation_log) :
      LET raw == conversation_log[k].raw_sources
          entry == last.download.history[2 * k]
      IN /\ Len(entry.contexts) = Len(entry.source_ids)
         /\ Len(entry.contexts) = Len(raw)
         /\ \A i \in 1..Len(raw) :
              /\ IsTrimOf(entry.contexts[i], raw[i].page_content)
              /\ entry.source_ids[i] = CanonicalId(SourcePathAbs(raw[i].metadata), root)

C6_Witness ==
  /\ Exported
  /\ last.download.kind = "json"
  /\ \E k \in 1..Len(conversation_log) :
       LET raw == conversation_log[k].raw_sources
           entry == last.download.history[2 * k]
       IN /\ Len(raw) = 2
          /\ raw[1].metadata.source.kind = "absent"
          /\ entry.source_ids[1] = SrcStr(UnknownSource)
          /\ entry.source_ids[2] # raw[2].metadata.source
          /\ entry.contexts[2] # raw[2].page_content

\* C7: an exported document over n Turns has 2 * n history entries; entries
\* 2k-1 and 2k are the user entry with the question and the assistant entry
\* with the answer of the k-th Turn, ground_truth being the empty string.
C7_HistoryFollowsLog ==
  (Exported /\ last.download.kind = "json") =>
    LET history == last.download.history
    IN /\ Len(history) = 2 * Len(conversation_log)
       /\ \A k \in 1..Len(conversation_log) :
            /\ history[2 * k - 1] =
                 [role |-> "user", content |-> conversation_log[k].question]
            /\ history[2 * k].role = "assistant"
            /\ history[2 * k].content = conversation_log[k].answer
            /\ history[2 * k].ground_truth = <<>>

C7_Witness ==
  /\ Exported
  /\ last.download.kind = "json"
  /\ Len(conversation_log) = 2
  /\ conversation_log[1].question = conversation_log[2].question
  /\ conversation_log[1].answer # conversation_log[2].answer
  /\ Len(last.download.history) = 4

Contains(s, needle) == \E k \in 0..Len(s) : OccursAt(s, needle, k)

\* C8: with p the source string s after replacing every backslash by "/": if p
\* contains root + "/", the id is p from the first occurrence on; if p does not
\* contain the root name, the id is s itself.
C8_Canonicalization ==
  (Exported /\ last.download.kind = "json") =>
    \A k \in 1..Len(conversation_log) :
      \A i \in 1..Len(conversation_log[k].raw_sources) :
        LET src == conversation_log[k].raw_sources[i].metadata.source
            id == last.download.history[2 * k].source_ids[i]
        IN src.kind = "str" =>
             LET p == ReplaceBackslash(src.s)
                 needle == root \o <<Slash>>
             IN /\ Contains(p, needle) =>
                     \E at \in 0..Len(p) :
                       /\ OccursAt(p, needle, at)
                       /\ \A before \in 0..(at - 1) : ~OccursAt(p, needle, before)
                       /\ id = SrcStr(Slice(p, at + 1, Len(p)))
                /\ ~Contains(p, root) => id = src

C8_Witness ==
  /\ Exported
  /\ last.download.kind = "json"
  /\ Len(conversation_log) = 1
  /\ root # <<>>
  /\ LET src == conversation_log[1].raw_sources[1].metadata.source
         id == last.download.history[2].source_ids[1]
     IN /\ src.s # ReplaceBackslash(src.s)
        /\ id # src
        /\ id.s # ReplaceBackslash(src.s)
        /\ id.s # <<>>

\* C9: export_conversation on an empty log shows the refusal, builds no
\* session document, offers no download and leaves the session state as it was.
C9_EmptyExportRefused ==
  (Exported /\ StartLog = <<>>) =>
    /\ last.outcome = "refused"
    /\ last.download = NoDownload
    /\ conversation_log = StartLog
    /\ messages = StartMessages

C9_Witness ==
  /\ Exported
  /\ last.outcome = "refused"
  /\ last.prevKeys = AllKeys
  /\ conversation_log = <<>>
  /\ messages # <<>>

\* One step of the log: unchanged, one Turn appended, or emptied by Clear.
C10_Step ==
  /\ \/ conversation_log' = conversation_log
     \/ /\ Len(conversation_log') = Len(conversation_log) + 1
        /\ IsPrefix(conversation_log, conversation_log')
     \/ /\ last'.op = "clear"
        /\ conversation_log' = <<>>
  /\ last'.op \in {"export", "rerun"} => conversation_log' = conversation_log
  /\ (last'.op = "submit" /\ last'.outcome # "logged") =>
       conversation_log' = conversation_log
  /\ last'.op = "clear" => conversation_log' = <<>>

\* C10: the log is created empty and every step leaves it unchanged, appends
\* one Turn at its end, or empties it through Clear; export, a failed submit
\* and a rerun leave it unchanged, and Clear always leaves it empty.
C10_AppendOnly == conversation_log = <<>> /\ [][C10_Step]_vars

C10_Witness ==
  /\ last.op = "clear"
  /\ Len(last.prevLog) >= 2
  /\ conversation_log = <<>>

IsAssistant(m) == m.role = "assistant"
AssistantMessages == SelectSeq(messages, IsAssistant)

\* C11: after any sequence of submits (successful or failing), clears and
\* exports, messages holds as many assistant entries as the log holds Turns,
\* and the k-th assistant message's content is the k-th Turn's answer.
C11_MessagesInStepWithLog ==
  /\ Len(AssistantMessages) = Len(conversation_log)
  /\ \A k \in 1..Len(conversation_log) :
       AssistantMessages[k].content = conversation_log[k].answer

C11_Witness ==
  /\ Submitted
  /\ last.outcome = "logged"
  /\ Len(conversation_log) = 1
  /\ Len(messages) = 3
  /\ messages[1].role = "user"
  /\ messages[2].role = "user"
  /\ AssistantMessages[1].content = conversation_log[1].answer

====
